---- MODULE Spec2Model ----
(***************************************************************************)
(* A model of the dungeon engine (src/src/dungeon.py): Map, Scene, Player  *)
(* and the two name-keyed registries of a Map.  Objects are identifiers    *)
(* (a Python object identity), names are strings; a registry is a function *)
(* whose DOMAIN is the set of keys of the Python dict.  A method is an     *)
(* operator from a world (the record of all mutable fields) to a result    *)
(* [w, err, val, hook]: the world the call leaves behind, also when it     *)
(* raises, and the exception it raises ("ok" when it returns).             *)
(*                                                                         *)
(* The sample game (src/src/gold_seekers.py) is the map SimpleMap builds,  *)
(* its six scene classes and NormalPlayer.  Input lines are sequences of   *)
(* characters; re.fullmatch is computed over them.  The translation        *)
(* function `_` is that of a locale without a catalogue entry: it returns  *)
(* its argument.                                                           *)
(***************************************************************************)
EXTENDS Integers, Sequences, FiniteSets, TLC

VARIABLES
    scenes,     \* Map._scenes     : [Maps -> dict name -> Scene]
    players,    \* Map._players    : [Maps -> dict name -> Player]
    starting,   \* Map._starting_scene : [Maps -> name or None]
    created,    \* the Scene objects whose constructor has returned
    pname,      \* Player._name    : [Players -> name], set by the constructor
    pmap,       \* Player._map     : [Players -> Map or None]
    pscene,     \* Player._scene   : [Players -> Scene or None]
    msgs,       \* Player._messages: [Players -> Seq(message)]
    pstate,     \* Player._state   : [Players -> dict], <<>> the empty dict
    bear_moved, \* BearScene._state['bear_moved'] (None: no BearScene built)
    game_on,    \* the variable `game_on` of the loop that plays the game
    last        \* the last call: what was called, with what, and how it ended

vars == <<scenes, players, starting, created, pname, pmap, pscene, msgs,
          pstate, bear_moved, game_on, last>>

----------------------------------------------------------------------------
(* The objects and names of the model. *)

None == "None"
True == "True"
False == "False"

Maps == {"M1", "M2"}
Players == {"P1", "P2"}
Scenes == {"S1", "S2", "S3", "S4"}

PlayerNames == {"al", "bob"}
SceneNames == {"hall", "cave"}

\* The map SimpleMap() builds, the scene objects its constructor creates (one
\* of each class) and their names, the _class_name of each class.
GameMap == "G"
GameScenes == {"Entrance", "First", "Cthulhu", "Lava", "Bear", "Gold"}
GameSceneNames == {"entrance", "first", "cthulhu", "lava", "bear", "gold"}

\* The class of a scene object.
SceneClass(s) ==
    IF s \in GameScenes THEN s \o "Scene" ELSE "Scene"

\* Map._name: the display name given to Map.__init__.
MapName(m) ==
    IF m = "M1" THEN "Dungeon"
    ELSE IF m = "M2" THEN "Cellar"
    ELSE "The Underground Realm of the Dread Lord Cthulhu"

\* Scene._name: S1 and S2 are two Scene objects built with the same name.
SceneName(s) ==
    CASE s = "Entrance" -> "entrance"
      [] s = "First" -> "first"
      [] s = "Cthulhu" -> "cthulhu"
      [] s = "Lava" -> "lava"
      [] s = "Bear" -> "bear"
      [] s = "Gold" -> "gold"
      [] s = "S3" -> "cave"
      [] OTHER -> "hall"

\* Scene._map: the map handed to the Scene constructor.
SceneMap(s) ==
    IF s \in GameScenes THEN GameMap
    ELSE IF s = "S4" THEN "M2" ELSE "M1"

\* The number of queued messages, over all players, the model lets a call
\* reach.
MaxMsgs == 4

\* The names the two Player constructors are given: two players of one name,
\* or two names, one of them of two characters.
Namings ==
    {[p \in Players |-> "al"],
     [p \in Players |-> IF p = "P1" THEN "al" ELSE "bob"]}

\* The map whose scenes are removed and replaced, and whose registries are
\* called directly.
TheMap == "M1"

\* isinstance(obj_ref, str)
IsStr(ref) == ref \in PlayerNames \cup SceneNames \cup GameSceneNames

----------------------------------------------------------------------------
(* The messages the engine queues. *)

MsgWelcome(p, m) == <<"Welcome", pname[p], MapName(m)>>
MsgFirstTime == <<"You're standing in some nondescript room.">>
MsgAgain == <<"How did you do that, cheater?">>
MsgGoodbye == <<"Goodbye!">>
MsgCantParse == <<"I don't understand that.">>

\* NormalScene._msg_nonsense, and the messages of NormalScene.
MsgNonsense ==
    << <<"You haven't really thought that was an option, have you?">>,
       <<"That would be stupid, don't you think?">>,
       <<"No way. Just no freaking way.">>,
       <<"The thought of doing that suddenly gave you chills. No, you won't do that.">>,
       <<"That's simply not possible.">>,
       <<"It's no use doing that. You should have tried something else.">> >>
MsgBoredToDeath == <<"You were bored to death.">>
MsgBoring(exc) == <<"Not advancing is boring. You're now {}.", exc>>
MsgRefreshing(exc) == <<"That was refreshing. You're now {}.", exc>>

\* The messages of the scenes of the sample game.
SceneMsg ==
    [door_opens |->
        <<"The door opens. You leap into the doorway!">>,
     left |->
        <<"Excellent choice! Or not.">>,
     right |->
        <<"Fantastic choice! No, wait, it isn't.">>,
     center |->
        <<"You were asking for trouble.">>,
     bear_moved |->
        <<"Bears sits a few feet away from the door.">>,
     bear_at_door |->
        <<"Bears sits in front of a door.">>,
     honey |->
        <<"The bear looks at you then slaps your face off.">>,
     chews |->
        <<"The bear gets pissed off and chews your leg off.">>,
     moves_away |->
        <<"The bear moves away from the door.">>,
     passed |->
        <<"The bear didn't even look at you as you passed it.">>,
     belly |->
        <<"The bear eats your belly.">>,
     flee |->
        <<"Cthulhu didn't follow you. You got away.">>,
     head |->
        <<"You smiled as you ate your head. That was yummy!">>,
     head_anyway |->
        <<"You didn't feel like doing it and ate your head instead. It was yummy!">>,
     not_greedy |->
        <<"Nice, you're not greedy!">>,
     greedy |->
        <<"You're greedy bastard!">>,
     dumbness |->
        <<"You can't even enter a number? You die of dumbness.">>,
     lava_death |->
        <<"You fall to the bottom and die.">>]

\* What _enter_first_time and _enter_again of the scene's class queue
\* (CthulhuScene, GoldScene and LavaScene inherit Scene._enter_again).
MsgFirstTimeOf(s) ==
    CASE s = "Entrance" -> <<"You're at the entrance.">>
      [] s = "First" ->
           <<"You're in a dark room. There are three doors: left, right and center.">>
      [] s = "Bear" ->
           <<"There is a fat bear here. He has a pot of honey. There is a door right before you.">>
      [] s = "Cthulhu" -> <<"You see Cthulhu. You can try to flee or eat your head.">>
      [] s = "Gold" -> <<"This room is full of gold. You should take some.">>
      [] s = "Lava" -> <<"The room is filled with lava.">>
      [] OTHER -> MsgFirstTime

MsgAgainOf(s) ==
    CASE s = "Entrance" -> <<"You're still at the entrance.">>
      [] s = "First" -> <<"You're still in the dark room with three doors.">>
      [] s = "Bear" -> <<"The bear is still here.">>
      [] OTHER -> MsgAgain

----------------------------------------------------------------------------
(* The world and results. *)

World ==
    [scenes |-> scenes, players |-> players, starting |-> starting,
     pmap |-> pmap, pscene |-> pscene, msgs |-> msgs,
     pstate |-> pstate, bear_moved |-> bear_moved]

\* `acts` lists, in order, the action handlers a call of do invoked and the
\* calls it made of the parent class's do ("Scene.do").
Ok(w, v) == [w |-> w, err |-> "ok", val |-> v, hook |-> None, acts |-> <<>>]
Raise(w, e) == [w |-> w, err |-> e, val |-> None, hook |-> None, acts |-> <<>>]

DictDel(d, k) == [x \in (DOMAIN d) \ {k} |-> d[x]]
DictSet(d, k, v) == [x \in (DOMAIN d) \cup {k} |-> IF x = k THEN v ELSE d[x]]

\* dsent.lists.Queue, the class of Player._messages: append puts an item at the
\* back; next(queue) takes the item at the front out and returns it, and
\* raises StopIteration on an empty queue.
Queue_append(q, item) == Append(q, item)
Queue_next(q) ==
    IF q = <<>> THEN [err |-> "StopIteration", val |-> None, q |-> q]
    ELSE [err |-> "ok", val |-> Head(q), q |-> Tail(q)]

\* Player.push_msg
push_msg(w, p, message) == [w EXCEPT !.msgs[p] = Queue_append(@, message)]

\* obj.name for a Player or a Scene object
PlayerNameOf(p) == pname[p]

----------------------------------------------------------------------------
(* re.fullmatch(pattern, string, re.I + re.X).  A string is a sequence of   *)
(* characters; a pattern is the tree of the regular expression.  Ends gives *)
(* the positions at which a match of the pattern that begins at position i  *)
(* can end: the string matches in full when one of them is past its end.    *)

UpperCase == <<"A", "B", "C", "D", "E", "F", "G", "H", "I", "J", "K", "L", "M",
               "N", "O", "P", "Q", "R", "S", "T", "U", "V", "W", "X", "Y", "Z">>
LowerCase == <<"a", "b", "c", "d", "e", "f", "g", "h", "i", "j", "k", "l", "m",
               "n", "o", "p", "q", "r", "s", "t", "u", "v", "w", "x", "y", "z">>
Digits == {"0", "1", "2", "3", "4", "5", "6", "7", "8", "9"}
Whitespace == {" ", "\t", "\n", "\r", "\f"}

\* re.I: characters are compared with their case folded.
Lower(c) ==
    IF \E k \in DOMAIN UpperCase : UpperCase[k] = c
    THEN LowerCase[CHOOSE k \in DOMAIN UpperCase : UpperCase[k] = c]
    ELSE c

\* \w
IsWordChar(c) ==
    \/ \E k \in DOMAIN LowerCase : LowerCase[k] = Lower(c)
    \/ c \in Digits
    \/ c = "_"

\* re.X: whitespace in the pattern, outside a class and not escaped, is no part
\* of the pattern.
Verbose(w) == SelectSeq(w, LAMBDA c : c \notin Whitespace)

\* The nodes of a pattern: literal text, one character of a set, `.`, a
\* sequence, `|`, `?`, `*`, `+`, `\b` and `(?<!^)`.
Lit(w) == [t |-> "lit", w |-> w]
Chr(set) == [t |-> "chr", set |-> set]
AnyChar == [t |-> "any"]
Cat(rs) == [t |-> "cat", rs |-> rs]
Alt(rs) == [t |-> "alt", rs |-> rs]
Opt(r) == [t |-> "opt", r |-> r]
Star(r) == [t |-> "star", r |-> r]
Plus(r) == Cat(<<r, Star(r)>>)
WordBoundary == [t |-> "wb"]
NotAtStart == [t |-> "notbol"]
Space == Chr(Whitespace)

\* Whether position i of s (1..Len(s)) holds a word character.
IsWordAt(s, i) == i >= 1 /\ i <= Len(s) /\ IsWordChar(s[i])

RECURSIVE Ends(_, _, _)
RECURSIVE CatEnds(_, _, _)
RECURSIVE StarEnds(_, _, _, _)

Ends(r, s, i) ==
    CASE r.t = "lit" ->
           LET w == Verbose(r.w) IN
           IF /\ i + Len(w) - 1 <= Len(s)
              /\ \A k \in 1..Len(w) : Lower(s[i + k - 1]) = Lower(w[k])
           THEN {i + Len(w)} ELSE {}
      [] r.t = "chr" ->
           IF i <= Len(s) /\ Lower(s[i]) \in r.set THEN {i + 1} ELSE {}
      [] r.t = "any" ->
           IF i <= Len(s) /\ s[i] # "\n" THEN {i + 1} ELSE {}
      [] r.t = "cat" -> CatEnds(r.rs, s, {i})
      [] r.t = "alt" -> UNION {Ends(r.rs[k], s, i) : k \in DOMAIN r.rs}
      [] r.t = "opt" -> {i} \cup Ends(r.r, s, i)
      [] r.t = "star" -> StarEnds(r.r, s, {i}, {i})
      [] r.t = "wb" ->
           IF IsWordAt(s, i - 1) # IsWordAt(s, i) THEN {i} ELSE {}
      [] r.t = "notbol" -> IF i # 1 THEN {i} ELSE {}

\* The patterns rs one after another, from any of the positions `from`.
CatEnds(rs, s, from) ==
    IF rs = <<>> THEN from
    ELSE CatEnds(Tail(rs), s, UNION {Ends(Head(rs), s, i) : i \in from})

\* Any number of matches of r: `seen` are the positions reached, `new` those
\* not yet continued.
StarEnds(r, s, new, seen) ==
    LET next == UNION {Ends(r, s, i) : i \in new} \ seen IN
    IF next = {} THEN seen ELSE StarEnds(r, s, next, seen \cup next)

fullmatch(pattern, string) == (Len(string) + 1) \in Ends(pattern, string, 1)

\* Scene.do: (?P<scene>exit|quit)(\s+game)?
PatExit ==
    Cat(<<Alt(<<Lit(<<"e", "x", "i", "t">>), Lit(<<"q", "u", "i", "t">>)>>), Opt(Cat(<<Plus(Space), Lit(<<"g", "a", "m", "e">>)>>))>>)

\* EntranceScene.do and the third pattern of BearScene.do:
\* (?P<entrance>open door|go through)
PatOpenDoor == Alt(<<Lit(<<"o", "p", "e", "n", " ", "d", "o", "o", "r">>), Lit(<<"g", "o", " ", "t", "h", "r", "o", "u", "g", "h">>)>>)

\* FirstScene.do: (?P<first>left|first)(\s+door)?, (?P<first>right|second)(\s+door)?,
\* (?P<first>center|central|third)(\s+door)?
FirstDispatch ==
    << [pat |-> Cat(<<Alt(<<Lit(<<"l", "e", "f", "t">>), Lit(<<"f", "i", "r", "s", "t">>)>>), Opt(Cat(<<Plus(Space), Lit(<<"d", "o", "o", "r">>)>>))>>),
        action |-> "action_left"],
       [pat |-> Cat(<<Alt(<<Lit(<<"r", "i", "g", "h", "t">>), Lit(<<"s", "e", "c", "o", "n", "d">>)>>), Opt(Cat(<<Plus(Space), Lit(<<"d", "o", "o", "r">>)>>))>>),
        action |-> "action_right"],
       [pat |-> Cat(<<Alt(<<Lit(<<"c", "e", "n", "t", "e", "r">>), Lit(<<"c", "e", "n", "t", "r", "a", "l">>), Lit(<<"t", "h", "i", "r", "d">>)>>),
                      Opt(Cat(<<Plus(Space), Lit(<<"d", "o", "o", "r">>)>>))>>),
        action |-> "action_center"] >>

\* BearScene.do: (?P<bear>take\s+)?(honey|pot), (?P<bear>taunt|scream)(\s+at)?(\s+bear)?,
\* (?P<bear>open door|go through)
BearDispatch ==
    << [pat |-> Cat(<<Opt(Cat(<<Lit(<<"t", "a", "k", "e">>), Plus(Space)>>)), Alt(<<Lit(<<"h", "o", "n", "e", "y">>), Lit(<<"p", "o", "t">>)>>)>>),
        action |-> "action_honey"],
       [pat |-> Cat(<<Alt(<<Lit(<<"t", "a", "u", "n", "t">>), Lit(<<"s", "c", "r", "e", "a", "m">>)>>), Opt(Cat(<<Plus(Space), Lit(<<"a", "t">>)>>)),
                      Opt(Cat(<<Plus(Space), Lit(<<"b", "e", "a", "r">>)>>))>>),
        action |-> "action_taunt"],
       [pat |-> PatOpenDoor, action |-> "action_door"] >>

\* CthulhuScene.do: (?P<cthulhu>flee),
\* (?P<cthulhu>(?:eat)?(?:\s*\bmy)?(?:\s*\bhead)?(?<!^)), (?P<cthulhu>.*)
CthulhuDispatch ==
    << [pat |-> Lit(<<"f", "l", "e", "e">>), action |-> "action_flee"],
       [pat |-> Cat(<<Opt(Lit(<<"e", "a", "t">>)),
                      Opt(Cat(<<Star(Space), WordBoundary, Lit(<<"m", "y">>)>>)),
                      Opt(Cat(<<Star(Space), WordBoundary, Lit(<<"h", "e", "a", "d">>)>>)),
                      NotAtStart>>),
        action |-> "action_head"],
       [pat |-> Star(AnyChar), action |-> "action_head_anyway"] >>

\* GoldScene.do: (?P<amount>(?:\\d+[.,]?\\d*|none|nothing|zero)), a raw string:
\* `\\` is a backslash in the text, d the letter.
PatAmount ==
    Alt(<<Cat(<<Lit(<<"\\">>), Plus(Lit(<<"d">>)), Opt(Chr({".", ","})), Lit(<<"\\">>), Star(Lit(<<"d">>))>>),
          Lit(<<"n", "o", "n", "e">>), Lit(<<"n", "o", "t", "h", "i", "n", "g">>), Lit(<<"z", "e", "r", "o">>)>>)

\* The words action_gold takes for the amount 0: [_('none'), _('nothing'), _('zero')]
ZeroWords == {<<"n", "o", "n", "e">>, <<"n", "o", "t", "h", "i", "n", "g">>, <<"z", "e", "r", "o">>}

----------------------------------------------------------------------------
(* The input lines the model gives to do. *)

Line ==
    [exit |-> <<"e", "x", "i", "t">>,
     quit_game |-> <<"q", "u", "i", "t", " ", "g", "a", "m", "e">>,
     exit_upper |-> <<"E", "X", "I", "T">>,
     exits |-> <<"e", "x", "i", "t", "s">>,
     left |-> <<"l", "e", "f", "t">>,
     left_door |-> <<"l", "e", "f", "t", " ", "d", "o", "o", "r">>,
     right |-> <<"r", "i", "g", "h", "t">>,
     center |-> <<"c", "e", "n", "t", "e", "r">>,
     open_door |-> <<"o", "p", "e", "n", " ", "d", "o", "o", "r">>,
     opendoor |-> <<"o", "p", "e", "n", "d", "o", "o", "r">>,
     taunt |-> <<"t", "a", "u", "n", "t">>,
     honey |-> <<"h", "o", "n", "e", "y">>,
     flee |-> <<"f", "l", "e", "e">>,
     eat_my_head |-> <<"e", "a", "t", " ", "m", "y", " ", "h", "e", "a", "d">>,
     none |-> <<"n", "o", "n", "e">>,
     empty |-> <<>>]

Inputs ==
    {Line.exit, Line.quit_game, Line.exit_upper, Line.exits,
     Line.left, Line.left_door, Line.right, Line.center,
     Line.open_door, Line.opendoor, Line.taunt, Line.honey,
     Line.flee, Line.eat_my_head, Line.none, Line.empty}

\* The input lines given to the base Scene.do, and to a do that is given an
\* already-handled result.
BaseInputs == {Line.exit, Line.quit_game, Line.exit_upper, Line.exits, Line.left, Line.empty}
HandledInputs == {Line.exit, Line.left}

----------------------------------------------------------------------------
(* Map._add_entity and Map._get_entity, over one dict.  `name` is obj.name. *)

\* Returns "ok" or the RuntimeError raised.
add_entity_err(obj, name, ent_dict) ==
    IF name \in DOMAIN ent_dict
    THEN IF ent_dict[name] = obj
         THEN "AlreadyRegistered"
         ELSE "DuplicateName"
    ELSE "ok"

\* add_entity_dict with the assignment `ent_dict[obj.name] = obj` lost.
add_entity_dict_lost(obj, name, ent_dict) == ent_dict

add_entity_dict(obj, name, ent_dict) ==
    IF add_entity_err(obj, name, ent_dict) = "ok"
    THEN DictSet(ent_dict, name, obj)
    ELSE ent_dict

\* get_entity without the check that the slot holds the object given.
get_entity_no_identity(obj_ref, nameOf, ent_dict) ==
    IF IsStr(obj_ref)
    THEN IF obj_ref \in DOMAIN ent_dict
         THEN [err |-> "ok", val |-> ent_dict[obj_ref]]
         ELSE [err |-> "NotFound", val |-> None]
    ELSE IF obj_ref = None
    THEN [err |-> "AttributeError", val |-> None]
    ELSE IF nameOf \notin DOMAIN ent_dict
    THEN [err |-> "NotFound", val |-> None]
    ELSE [err |-> "ok", val |-> obj_ref]

\* obj_ref is a name (a str), an object, or None; nameOf gives obj_ref.name.
\* Returns [err, val].
get_entity(obj_ref, nameOf, ent_dict) ==
    IF IsStr(obj_ref)
    THEN IF obj_ref \in DOMAIN ent_dict
         THEN [err |-> "ok", val |-> ent_dict[obj_ref]]
         ELSE [err |-> "NotFound", val |-> None]
    ELSE IF obj_ref = None
    THEN [err |-> "AttributeError", val |-> None]
    ELSE IF nameOf \notin DOMAIN ent_dict
    THEN [err |-> "NotFound", val |-> None]
    ELSE IF ent_dict[nameOf] # obj_ref
    THEN [err |-> "IdentityMismatch", val |-> None]
    ELSE [err |-> "ok", val |-> obj_ref]

RefName(ref, isPlayer) ==
    IF IsStr(ref) \/ ref = None THEN ref
    ELSE IF isPlayer THEN PlayerNameOf(ref) ELSE SceneName(ref)

----------------------------------------------------------------------------
(* Map *)

\* Map.scene
scene(w, m, scene_ref) ==
    get_entity(scene_ref, RefName(scene_ref, FALSE), w.scenes[m])

\* Map.player
player(w, m, player_ref) ==
    get_entity(player_ref, RefName(player_ref, TRUE), w.players[m])

\* Map.add_scene
add_scene(w, m, s) ==
    LET e == add_entity_err(s, SceneName(s), w.scenes[m]) IN
    IF e # "ok" THEN Raise(w, e)
    ELSE Ok([w EXCEPT !.scenes[m] = add_entity_dict(s, SceneName(s), @)], None)

\* add_player with the welcome message queued before the player is added.
add_player_welcome_first(w, m, p) ==
    LET e == add_entity_err(p, PlayerNameOf(p), w.players[m])
        w1 == push_msg(w, p, MsgWelcome(p, m)) IN
    IF e # "ok" THEN Raise(w1, e)
    ELSE Ok([w1 EXCEPT !.players[m] = add_entity_dict(p, PlayerNameOf(p), @)],
            None)

\* Map.add_player
add_player(w, m, p) ==
    LET e == add_entity_err(p, PlayerNameOf(p), w.players[m]) IN
    IF e # "ok" THEN Raise(w, e)
    ELSE Ok(push_msg([w EXCEPT !.players[m] =
                          add_entity_dict(p, PlayerNameOf(p), @)],
                     p, MsgWelcome(p, m)), None)

\* Map.remove_player
remove_player(w, m, player_ref) ==
    LET r == player(w, m, player_ref) IN
    IF r.err # "ok" THEN Raise(w, r.err)
    ELSE Ok([w EXCEPT !.players[m] = DictDel(@, PlayerNameOf(r.val))], None)

\* The setter storing the name of what it is given without resolving it, as
\* Map.__init__ stores its starting_scene argument.
set_starting_scene_unchecked(w, m, value) ==
    Ok([w EXCEPT !.starting[m] = RefName(value, FALSE)], None)

\* Map.starting_scene setter
set_starting_scene(w, m, value) ==
    LET r == scene(w, m, value) IN
    IF r.err # "ok" THEN Raise(w, r.err)
    ELSE Ok([w EXCEPT !.starting[m] = SceneName(r.val)], None)

\* Map.remove_scene.  The loop `for _, p in self._players` iterates the keys of
\* the dict and unpacks each key, a str, into two names: `first` is the key the
\* iteration yields first, `optimized` tells whether assert statements are
\* compiled out (python -O).
remove_scene(w, m, scene_ref, first, optimized) ==
    LET r == scene(w, m, scene_ref) IN
    IF r.err # "ok" THEN Raise(w, r.err)
    ELSE IF DOMAIN w.players[m] # {}
    THEN IF Len(first) # 2
         THEN Raise(w, "ValueError")
         ELSE IF ~optimized
         THEN Raise(w, "AssertionError")
         ELSE Raise(w, "AttributeError")
    ELSE IF IsStr(scene_ref)
    THEN Raise(w, "AttributeError")
    ELSE Ok([w EXCEPT !.scenes[m] = DictDel(@, SceneName(scene_ref))], None)

----------------------------------------------------------------------------
(* Scene *)

\* Scene.enter that runs the first-time hook whatever the player's scene is.
Scene_enter_always_first(w, s, player_ref) ==
    LET r == player(w, SceneMap(s), player_ref) IN
    IF r.err # "ok" THEN Raise(w, r.err)
    ELSE [Ok(push_msg([w EXCEPT !.pscene[r.val] = s], r.val, MsgFirstTimeOf(s)),
             None) EXCEPT !.hook = "first"]

\* Scene.enter that takes a Player object as it is given, without asking the
\* map for it.
Scene_enter_trusts_object(w, s, player_ref) ==
    LET r == IF player_ref \in Players THEN Ok(w, player_ref)
             ELSE player(w, SceneMap(s), player_ref) IN
    IF r.err # "ok" THEN Raise(w, r.err)
    ELSE IF w.pscene[r.val] # s
    THEN [Ok(push_msg([w EXCEPT !.pscene[r.val] = s], r.val, MsgFirstTimeOf(s)),
             None) EXCEPT !.hook = "first"]
    ELSE [Ok(push_msg(w, r.val, MsgAgainOf(s)), None) EXCEPT !.hook = "again"]

\* Scene.enter: resolves the player through the scene's own map.
Scene_enter(w, s, player_ref) ==
    LET r == player(w, SceneMap(s), player_ref) IN
    IF r.err # "ok" THEN Raise(w, r.err)
    ELSE IF w.pscene[r.val] # s
    THEN [Ok(push_msg([w EXCEPT !.pscene[r.val] = s], r.val, MsgFirstTimeOf(s)),
             None) EXCEPT !.hook = "first"]
    ELSE [Ok(push_msg(w, r.val, MsgAgainOf(s)), None) EXCEPT !.hook = "again"]

\* BearScene.enter: Scene.enter, then the message that tells where the bear is.
BearScene_enter(w, s, player_ref) ==
    LET r == Scene_enter(w, s, player_ref) IN
    IF r.err # "ok" THEN r
    ELSE LET r2 == player(r.w, SceneMap(s), player_ref) IN
         IF r2.err # "ok" THEN Raise(r.w, r2.err)
         ELSE [r EXCEPT !.w = push_msg(r.w, r2.val,
                                IF r.w.bear_moved = True THEN SceneMsg.bear_moved
                                ELSE SceneMsg.bear_at_door)]

\* scene.enter(player_ref): the method of the scene's class.
enter(w, s, player_ref) ==
    IF SceneClass(s) = "BearScene" THEN BearScene_enter(w, s, player_ref)
    ELSE Scene_enter(w, s, player_ref)

----------------------------------------------------------------------------
(* Player *)

\* leave_map without the test `if self._map`: it asks the map, None for an
\* unattached player, to remove the player.
leave_map_unguarded(w, p) ==
    IF w.pmap[p] = None THEN Raise(w, "AttributeError")
    ELSE LET r == remove_player(w, w.pmap[p], p) IN
         IF r.err # "ok" THEN Raise(w, r.err)
         ELSE Ok([r.w EXCEPT !.pmap[p] = None, !.pscene[p] = None], None)

\* leave_map that clears the map and leaves the current scene set.
leave_map_keeps_scene(w, p) ==
    IF w.pmap[p] # None
    THEN LET r == remove_player(w, w.pmap[p], p) IN
         IF r.err # "ok" THEN Raise(w, r.err)
         ELSE Ok([r.w EXCEPT !.pmap[p] = None], None)
    ELSE Ok(w, None)

\* Player.leave_map
leave_map(w, p) ==
    IF w.pmap[p] # None
    THEN LET r == remove_player(w, w.pmap[p], p) IN
         IF r.err # "ok" THEN Raise(w, r.err)
         ELSE Ok([r.w EXCEPT !.pmap[p] = None, !.pscene[p] = None], None)
    ELSE Ok(w, None)

\* enter_map that enters the map's starting scene whatever scene_ref is.
enter_map_ignores_ref(w, p, game_map, scene_ref) ==
    LET r1 == leave_map(w, p) IN
    IF r1.err # "ok" THEN r1
    ELSE
    LET w2 == [r1.w EXCEPT !.pmap[p] = game_map]
        r3 == add_player(w2, game_map, p) IN
    IF r3.err # "ok" THEN Raise(w2, r3.err)
    ELSE
    LET r4 == scene(r3.w, game_map, r3.w.starting[game_map]) IN
    IF r4.err # "ok" THEN Raise(r3.w, r4.err)
    ELSE enter(r3.w, r4.val, p)

\* enter_map that does not leave the map the player is in.
enter_map_no_leave(w, p, game_map, scene_ref) ==
    LET w2 == [w EXCEPT !.pmap[p] = game_map]
        r3 == add_player(w2, game_map, p) IN
    IF r3.err # "ok" THEN Raise(w2, r3.err)
    ELSE
    LET ref == IF scene_ref = None THEN r3.w.starting[game_map] ELSE scene_ref
        r4 == scene(r3.w, game_map, ref) IN
    IF r4.err # "ok" THEN Raise(r3.w, r4.err)
    ELSE enter(r3.w, r4.val, p)

\* Player.enter_map
enter_map(w, p, game_map, scene_ref) ==
    LET r1 == leave_map(w, p) IN
    IF r1.err # "ok" THEN r1
    ELSE
    LET w2 == [r1.w EXCEPT !.pmap[p] = game_map]
        r3 == add_player(w2, game_map, p) IN
    IF r3.err # "ok" THEN Raise(w2, r3.err)
    ELSE
    LET ref == IF scene_ref = None THEN r3.w.starting[game_map] ELSE scene_ref
        r4 == scene(r3.w, game_map, ref) IN
    IF r4.err # "ok" THEN Raise(r3.w, r4.err)
    ELSE enter(r3.w, r4.val, p)

\* pop_msg as next(self._messages), without the default: the StopIteration of
\* the empty queue reaches the caller.
pop_msg_no_default(w, p) ==
    LET n == Queue_next(w.msgs[p]) IN
    IF n.err # "ok" THEN Raise(w, n.err)
    ELSE Ok([w EXCEPT !.msgs[p] = n.q], n.val)

\* Player.pop_msg: next(self._messages, None)
pop_msg(w, p) ==
    LET n == Queue_next(w.msgs[p]) IN
    IF n.err = "StopIteration" THEN Ok(w, None)
    ELSE Ok([w EXCEPT !.msgs[p] = n.q], n.val)

----------------------------------------------------------------------------
(* Scene.do, and the scenes and the player of the sample game. *)

\* A result with `name` put first in the list of what the call invoked.
Traced(name, r) == [r EXCEPT !.acts = <<name>> \o @]

\* Scene.action_exit
action_exit(w, plr) == Ok(push_msg(w, plr, MsgGoodbye), False)

\* Scene.action_cant_parse
Scene_action_cant_parse(w, plr) == Ok(push_msg(w, plr, MsgCantParse), False)

\* Whether the name `random` is bound in gold_seekers.py: the module imports
\* re and the public names of src.dungeon, and random is none of them.
RandomIsBound == FALSE

\* The choices of random.choice(self._msg_nonsense) in a call of do: only a
\* scene of the sample game that is given no already-handled result draws,
\* and only where random is bound.
NonsensePicks(s, handled) ==
    IF SceneClass(s) = "Scene" \/ handled # None \/ ~RandomIsBound THEN {1}
    ELSE DOMAIN MsgNonsense

\* NormalScene._msg_excitement
MsgExcitement ==
    << [lvl |-> 2, m |-> "enthusiastic"], [lvl |-> 4, m |-> "excited"],
       [lvl |-> 6, m |-> "active"], [lvl |-> 8, m |-> "calm"],
       [lvl |-> 10, m |-> "bored"], [lvl |-> 12, m |-> "extremely bored"],
       [lvl |-> 14, m |-> "fed up with your life"] >>

\* NormalScene._excitement: the word of the first level not below `level`;
\* None stands for the False it returns past the last level.
excitement(level) ==
    LET fit == {i \in DOMAIN MsgExcitement : level <= MsgExcitement[i].lvl} IN
    IF fit = {} THEN None
    ELSE MsgExcitement[CHOOSE i \in fit : \A j \in fit : i <= j].m

\* NormalScene._something_changed; plr.state['boredom'] raises KeyError for a
\* player without the key.
something_changed(w, plr) ==
    IF "boredom" \notin DOMAIN w.pstate[plr] THEN Raise(w, "KeyError")
    ELSE IF w.pstate[plr].boredom > 2
    THEN LET w1 == [w EXCEPT !.pstate[plr].boredom =
                                 IF @ <= 10 THEN 0 ELSE @ - 10] IN
         Ok(push_msg(w1, plr, MsgRefreshing(excitement(w1.pstate[plr].boredom))),
            None)
    ELSE Ok(w, None)

\* NormalScene.action_cant_parse; `pick` is the index random.choice draws.
NormalScene_action_cant_parse(w, plr, pick) ==
    IF ~RandomIsBound THEN Raise(w, "NameError")
    ELSE
    LET w1 == push_msg(w, plr, MsgNonsense[pick]) IN
    IF "boredom" \notin DOMAIN w1.pstate[plr] THEN Raise(w1, "KeyError")
    ELSE
    LET exc1 == excitement(w1.pstate[plr].boredom)
        w2 == [w1 EXCEPT !.pstate[plr].boredom = @ + 1]
        exc2 == excitement(w2.pstate[plr].boredom) IN
    IF exc2 = None THEN Ok(push_msg(w2, plr, MsgBoredToDeath), False)
    ELSE
    LET w3 == IF exc2 # exc1 THEN push_msg(w2, plr, MsgBoring(exc2)) ELSE w2 IN
    IF w3.pscene[plr] = None THEN Raise(w3, "AttributeError")
    ELSE LET r == enter(w3, w3.pscene[plr], plr) IN
         IF r.err # "ok" THEN r ELSE [r EXCEPT !.val = True]

\* self.action_cant_parse(plr): the method of the scene's class.
action_cant_parse(w, s, plr, pick) ==
    IF SceneClass(s) = "Scene" THEN Scene_action_cant_parse(w, plr)
    ELSE NormalScene_action_cant_parse(w, plr, pick)

\* Scene.do with re.match in the place of re.fullmatch: the pattern has to
\* match a prefix of the input.
Scene_do_prefix(w, s, player_ref, input_str, handled, pick) ==
    IF handled # None THEN Ok(w, handled)
    ELSE LET r == player(w, SceneMap(s), player_ref) IN
         IF r.err # "ok" THEN Raise(w, r.err)
         ELSE IF Ends(PatExit, input_str, 1) # {}
         THEN Traced("action_exit", action_exit(w, r.val))
         ELSE Traced("action_cant_parse", action_cant_parse(w, s, r.val, pick))

\* Scene.do
Scene_do(w, s, player_ref, input_str, handled, pick) ==
    IF handled # None THEN Ok(w, handled)
    ELSE LET r == player(w, SceneMap(s), player_ref) IN
         IF r.err # "ok" THEN Raise(w, r.err)
         ELSE IF fullmatch(PatExit, input_str)
         THEN Traced("action_exit", action_exit(w, r.val))
         ELSE Traced("action_cant_parse", action_cant_parse(w, s, r.val, pick))

\* super(...).do(plr, input_str) of a scene of the sample game: NormalScene
\* defines no do, the call is Scene.do.
super_do(w, s, plr, input_str, pick) ==
    Traced("Scene.do", Scene_do(w, s, plr, input_str, None, pick))

\* move_to that returns True without entering the target scene.
move_to_no_enter(w, s, plr, message, target) ==
    LET r2 == something_changed(push_msg(w, plr, message), plr) IN
    IF r2.err # "ok" THEN r2 ELSE [r2 EXCEPT !.val = True]

\* move_to that enters the target scene before it queues its own message.
move_to_enter_first(w, s, plr, message, target) ==
    LET r3 == scene(w, SceneMap(s), target) IN
    IF r3.err # "ok" THEN Raise(w, r3.err)
    ELSE LET r4 == enter(w, r3.val, plr) IN
         IF r4.err # "ok" THEN r4
         ELSE LET r2 == something_changed(push_msg(r4.w, plr, message), plr) IN
              IF r2.err # "ok" THEN r2
              ELSE [r2 EXCEPT !.val = True, !.hook = r4.hook]

\* What the handlers that move the player do: the message, _something_changed,
\* self._map.scene(target).enter(plr), return True.
move_to(w, s, plr, message, target) ==
    LET r2 == something_changed(push_msg(w, plr, message), plr) IN
    IF r2.err # "ok" THEN r2
    ELSE LET r3 == scene(r2.w, SceneMap(s), target) IN
         IF r3.err # "ok" THEN Raise(r2.w, r3.err)
         ELSE LET r4 == enter(r2.w, r3.val, plr) IN
              IF r4.err # "ok" THEN r4 ELSE [r4 EXCEPT !.val = True]

\* EntranceScene.action_open_door
action_open_door(w, s, plr) == move_to(w, s, plr, SceneMsg.door_opens, "first")

\* FirstScene.action_left, action_right, action_center
action_left(w, s, plr) == move_to(w, s, plr, SceneMsg.left, "bear")
action_right(w, s, plr) == move_to(w, s, plr, SceneMsg.right, "cthulhu")
action_center(w, s, plr) == move_to(w, s, plr, SceneMsg.center, "lava")

\* BearScene.action_honey
action_honey(w, s, plr) == Ok(push_msg(w, plr, SceneMsg.honey), False)

\* BearScene.action_taunt
action_taunt(w, s, plr) ==
    IF w.bear_moved = True THEN Ok(push_msg(w, plr, SceneMsg.chews), False)
    ELSE LET r == something_changed(
                      push_msg([w EXCEPT !.bear_moved = True], plr, SceneMsg.moves_away),
                      plr) IN
         IF r.err # "ok" THEN r ELSE [r EXCEPT !.val = True]

\* action_door that does not look at bear_moved.
action_door_unguarded(w, s, plr) == move_to(w, s, plr, SceneMsg.passed, "gold")

\* BearScene.action_door
action_door(w, s, plr) ==
    IF w.bear_moved = True THEN move_to(w, s, plr, SceneMsg.passed, "gold")
    ELSE Ok(push_msg(w, plr, SceneMsg.belly), False)

\* CthulhuScene.action_flee, action_head, action_head_anyway
action_flee(w, s, plr) == move_to(w, s, plr, SceneMsg.flee, "first")
action_head(w, s, plr) == Ok(push_msg(w, plr, SceneMsg.head), False)
action_head_anyway(w, s, plr) == Ok(push_msg(w, plr, SceneMsg.head_anyway), False)

\* str.replace(',', '.')
replace_comma(text) ==
    [i \in DOMAIN text |-> IF text[i] = "," THEN "." ELSE text[i]]

\* The number a sequence of digits writes.
RECURSIVE DigitsValue(_)
DigitsValue(ds) ==
    IF ds = <<>> THEN 0
    ELSE 10 * DigitsValue(SubSeq(ds, 1, Len(ds) - 1))
         + (CHOOSE n \in 0..9 : ToString(n) = ds[Len(ds)])

\* float(text) for a text of digits with at most one point: the whole part of
\* the number and whether a nonzero fraction follows it.  It raises ValueError
\* for a word and for a text that holds a backslash, as every text does that
\* PatAmount matches and ZeroWords does not hold.
float(text) ==
    LET points == {i \in DOMAIN text : text[i] = "."}
        cut == IF points = {} THEN Len(text) + 1 ELSE CHOOSE i \in points : TRUE
        whole == SubSeq(text, 1, cut - 1)
        fraction == SubSeq(text, cut + 1, Len(text)) IN
    IF \/ Cardinality(points) > 1
       \/ \E i \in DOMAIN text : text[i] \notin Digits \cup {"."}
       \/ whole \o fraction = <<>>
    THEN [err |-> "ValueError", whole |-> 0, fraction |-> FALSE]
    ELSE [err |-> "ok", whole |-> DigitsValue(whole),
          fraction |-> \E i \in DOMAIN fraction : fraction[i] # "0"]

\* GoldScene.action_gold; `amount` is match.group('amount'), the input line as
\* typed: the words meaning 0 are compared with it case and all.
action_gold(w, s, plr, amount) ==
    LET value == IF amount \in ZeroWords
                 THEN [err |-> "ok", whole |-> 0, fraction |-> FALSE]
                 ELSE float(replace_comma(amount)) IN
    IF value.err # "ok" THEN Raise(w, value.err)
    ELSE IF value.whole < 50 \/ (value.whole = 50 /\ ~value.fraction)
    THEN Ok(push_msg(w, plr, SceneMsg.not_greedy), False)
    ELSE Ok(push_msg(w, plr, SceneMsg.greedy), False)

\* GoldScene.action_none
action_none(w, s, plr) == Ok(push_msg(w, plr, SceneMsg.dumbness), False)

\* LavaScene.action_lava_death
action_lava_death(w, s, plr) == Ok(push_msg(w, plr, SceneMsg.lava_death), False)

\* action(plr) for a handler of a dispatch table.
invoke(action, w, s, plr) ==
    Traced(action,
        CASE action = "action_left" -> action_left(w, s, plr)
          [] action = "action_right" -> action_right(w, s, plr)
          [] action = "action_center" -> action_center(w, s, plr)
          [] action = "action_honey" -> action_honey(w, s, plr)
          [] action = "action_taunt" -> action_taunt(w, s, plr)
          [] action = "action_door" -> action_door(w, s, plr)
          [] action = "action_flee" -> action_flee(w, s, plr)
          [] action = "action_head" -> action_head(w, s, plr)
          [] action = "action_head_anyway" -> action_head_anyway(w, s, plr))

\* The loop `for r_exp, action in dispatch` taken from the last entry: the
\* index of the last pattern the input matches in full, 0 when there is none.
first_match_from_last(dispatch, input_str) ==
    LET hits == {k \in DOMAIN dispatch : fullmatch(dispatch[k].pat, input_str)} IN
    IF hits = {} THEN 0 ELSE CHOOSE k \in hits : \A j \in hits : j <= k

\* The loop `for r_exp, action in dispatch: ... break`: the index of the first
\* pattern the input matches in full, 0 when there is none (the else branch).
first_match(dispatch, input_str) ==
    LET hits == {k \in DOMAIN dispatch : fullmatch(dispatch[k].pat, input_str)} IN
    IF hits = {} THEN 0 ELSE CHOOSE k \in hits : \A j \in hits : k <= j

\* dispatch_do without the test `if game_on is None`.
dispatch_do_ignores_handled(dispatch, w, s, player_ref, input_str, handled, pick) ==
    LET r == player(w, SceneMap(s), player_ref) IN
    IF r.err # "ok" THEN Raise(w, r.err)
    ELSE LET k == first_match(dispatch, input_str) IN
         IF k # 0 THEN invoke(dispatch[k].action, w, s, r.val)
         ELSE super_do(w, s, r.val, input_str, pick)

\* The do of FirstScene, BearScene and CthulhuScene, each with its table.
dispatch_do(dispatch, w, s, player_ref, input_str, handled, pick) ==
    LET r == player(w, SceneMap(s), player_ref) IN
    IF r.err # "ok" THEN Raise(w, r.err)
    ELSE IF handled # None THEN Ok(w, handled)
    ELSE LET k == first_match(dispatch, input_str) IN
         IF k # 0 THEN invoke(dispatch[k].action, w, s, r.val)
         ELSE super_do(w, s, r.val, input_str, pick)

\* EntranceScene.do
EntranceScene_do(w, s, player_ref, input_str, handled, pick) ==
    LET r == player(w, SceneMap(s), player_ref) IN
    IF r.err # "ok" THEN Raise(w, r.err)
    ELSE IF handled # None THEN Ok(w, handled)
    ELSE IF fullmatch(PatOpenDoor, input_str)
    THEN Traced("action_open_door", action_open_door(w, s, r.val))
    ELSE super_do(w, s, r.val, input_str, pick)

\* FirstScene.do, BearScene.do, CthulhuScene.do
FirstScene_do(w, s, player_ref, input_str, handled, pick) ==
    dispatch_do(FirstDispatch, w, s, player_ref, input_str, handled, pick)

BearScene_do(w, s, player_ref, input_str, handled, pick) ==
    dispatch_do(BearDispatch, w, s, player_ref, input_str, handled, pick)

CthulhuScene_do(w, s, player_ref, input_str, handled, pick) ==
    dispatch_do(CthulhuDispatch, w, s, player_ref, input_str, handled, pick)

\* GoldScene.do
GoldScene_do(w, s, player_ref, input_str, handled) ==
    LET r == player(w, SceneMap(s), player_ref) IN
    IF r.err # "ok" THEN Raise(w, r.err)
    ELSE IF handled # None THEN Ok(w, handled)
    ELSE IF fullmatch(PatAmount, input_str)
    THEN Traced("action_gold", action_gold(w, s, r.val, input_str))
    ELSE Traced("action_none", action_none(w, s, r.val))

\* LavaScene.do
LavaScene_do(w, s, player_ref, input_str, handled) ==
    LET r == player(w, SceneMap(s), player_ref) IN
    IF r.err # "ok" THEN Raise(w, r.err)
    ELSE IF handled # None THEN Ok(w, handled)
    ELSE Traced("action_lava_death", action_lava_death(w, s, r.val))

\* scene.do(player_ref, input_str, game_on): the method of the scene's class.
do(w, s, player_ref, input_str, handled, pick) ==
    CASE SceneClass(s) = "EntranceScene" ->
           EntranceScene_do(w, s, player_ref, input_str, handled, pick)
      [] SceneClass(s) = "FirstScene" ->
           FirstScene_do(w, s, player_ref, input_str, handled, pick)
      [] SceneClass(s) = "BearScene" ->
           BearScene_do(w, s, player_ref, input_str, handled, pick)
      [] SceneClass(s) = "CthulhuScene" ->
           CthulhuScene_do(w, s, player_ref, input_str, handled, pick)
      [] SceneClass(s) = "GoldScene" ->
           GoldScene_do(w, s, player_ref, input_str, handled)
      [] SceneClass(s) = "LavaScene" ->
           LavaScene_do(w, s, player_ref, input_str, handled)
      [] OTHER -> Scene_do(w, s, player_ref, input_str, handled, pick)

----------------------------------------------------------------------------
(* Actions: one call each.  `last` records the call and its outcome. *)

Commit(r) ==
    /\ scenes' = r.w.scenes
    /\ players' = r.w.players
    /\ starting' = r.w.starting
    /\ pmap' = r.w.pmap
    /\ pscene' = r.w.pscene
    /\ msgs' = r.w.msgs
    /\ pstate' = r.w.pstate
    /\ bear_moved' = r.w.bear_moved

\* The record of a call: the method, the map, player and scene objects it is
\* about, the reference it was given, the player's current scene when it began,
\* and its outcome; for a call of do, the input line and the already-handled
\* result it was given (DoCall, below).
Call(op, m, p, s, ref, was, r) ==
    [op |-> op, map |-> m, plr |-> p, scn |-> s, ref |-> ref, was |-> was,
     inp |-> None, handled |-> None,
     err |-> r.err, val |-> r.val, hook |-> r.hook, acts |-> r.acts]

\* The queues stay within MaxMsgs.
Bounded(r) == Len(r.w.msgs["P1"]) + Len(r.w.msgs["P2"]) <= MaxMsgs

\* The state after construction: M1 as a Map subclass builds it (its scenes
\* S1 and S3 constructed, its starting scene set), M2 a base Map with one
\* scene and no starting scene; two players constructed without a map.
Init ==
    /\ scenes = [m \in Maps |->
                   IF m = "M1" THEN ("hall" :> "S1") @@ ("cave" :> "S3")
                   ELSE ("hall" :> "S4")]
    /\ players = [m \in Maps |-> <<>>]
    /\ starting = [m \in Maps |-> IF m = "M1" THEN "hall" ELSE None]
    /\ created = {"S1", "S3", "S4"}
    /\ pname \in Namings
    /\ pmap = [p \in Players |-> None]
    /\ pscene = [p \in Players |-> None]
    /\ msgs = [p \in Players |-> <<>>]
    /\ pstate = [p \in Players |-> <<>>]
    /\ bear_moved = None
    /\ game_on = True
    /\ last = Call("init", None, None, None, None, None, Ok(None, None))

\* Scene.__init__: the constructor registers the new scene; when add_scene
\* raises, no reference to the object survives.
NewScene(s) ==
    /\ s \notin created
    /\ LET r == add_scene(World, SceneMap(s), s) IN
       /\ Commit(r)
       /\ created' = IF r.err = "ok" THEN created \cup {s} ELSE created
       /\ last' = Call("Scene", SceneMap(s), None, s, None, None, r)
    /\ UNCHANGED <<pname, game_on>>

SceneRefs(m) == {None} \cup SceneNames \cup {s \in created : SceneMap(s) = m}

EnterMap(p, m, ref) ==
    /\ LET r == enter_map(World, p, m, ref) IN
       /\ Bounded(r)
       /\ Commit(r)
       /\ last' = Call("enter_map", m, p, None, ref, pscene[p], r)
    /\ UNCHANGED <<created, pname, game_on>>

LeaveMap(p) ==
    /\ LET r == leave_map(World, p) IN
       /\ Commit(r)
       /\ last' = Call("leave_map", pmap[p], p, None, None, pscene[p], r)
    /\ UNCHANGED <<created, pname, game_on>>

PopMsg(p) ==
    /\ LET r == pop_msg(World, p) IN
       /\ Commit(r)
       /\ last' = Call("pop_msg", None, p, None, None, None, r)
    /\ UNCHANGED <<created, pname, game_on>>

SetStartingScene(m, ref) ==
    /\ LET r == set_starting_scene(World, m, ref) IN
       /\ Commit(r)
       /\ last' = Call("starting_scene", m, None, None, ref, None, r)
    /\ UNCHANGED <<created, pname, game_on>>

\* Scene.enter called on a scene object the caller holds (a transition, or a
\* stale reference), with the player given by name or by object.
PlayerRefs == PlayerNames \cup Players

SceneEnter(s, ref) ==
    /\ s \in created
    /\ SceneMap(s) = TheMap
    /\ LET r == Scene_enter(World, s, ref)
           plr == player(World, SceneMap(s), ref).val
           was == IF plr = None THEN None ELSE pscene[plr] IN
       /\ Bounded(r)
       /\ Commit(r)
       /\ last' = Call("enter", SceneMap(s), plr, s, ref, was, r)
    /\ UNCHANGED <<created, pname, game_on>>

\* The keys the loop of remove_scene may yield first.
FirstKeys(m) == IF DOMAIN players[m] = {} THEN {None} ELSE DOMAIN players[m]

RemoveScene(m, ref) ==
    /\ \E first \in FirstKeys(m), optimized \in BOOLEAN :
         LET r == remove_scene(World, m, ref, first, optimized) IN
         /\ Commit(r)
         /\ last' = Call("remove_scene", m, None, None, ref, None, r)
    /\ UNCHANGED <<created, pname, game_on>>

\* Map.add_scene called for a scene that exists already (after its removal, or
\* a second time).
AddScene(s) ==
    /\ s \in created
    /\ SceneMap(s) = TheMap
    /\ LET r == add_scene(World, SceneMap(s), s) IN
       /\ Commit(r)
       /\ last' = Call("add_scene", SceneMap(s), None, s, None, None, r)
    /\ UNCHANGED <<created, pname, game_on>>

AddPlayer(m, p) ==
    /\ LET r == add_player(World, m, p) IN
       /\ Bounded(r)
       /\ Commit(r)
       /\ last' = Call("add_player", m, p, None, None, None, r)
    /\ UNCHANGED <<created, pname, game_on>>

RemovePlayer(m, ref) ==
    /\ LET r == remove_player(World, m, ref) IN
       /\ Commit(r)
       /\ last' = Call("remove_player", m, None, None, ref, None, r)
    /\ UNCHANGED <<created, pname, game_on>>

\* Map.scene and Map.player called by a client: the lookup changes nothing.
SceneLookup(m, ref) ==
    /\ LET r == scene(World, m, ref) IN
       last' = Call("scene", m, None, None, ref, None, r @@ [hook |-> None, acts |-> <<>>])
    /\ UNCHANGED <<scenes, players, starting, created, pname, pmap, pscene,
                   msgs, pstate, bear_moved, game_on>>

PlayerLookup(m, ref) ==
    /\ LET r == player(World, m, ref) IN
       last' = Call("player", m, None, None, ref, None, r @@ [hook |-> None, acts |-> <<>>])
    /\ UNCHANGED <<scenes, players, starting, created, pname, pmap, pscene,
                   msgs, pstate, bear_moved, game_on>>

\* The record of a call of do.
DoCall(s, ref, input_str, handled, r) ==
    LET plr == player(World, SceneMap(s), ref).val
        was == IF plr = None THEN None ELSE pscene[plr] IN
    [Call("do", SceneMap(s), plr, s, ref, was, r)
        EXCEPT !.inp = input_str, !.handled = handled]

\* scene.do(ref, input_str, handled) called on a scene object the caller holds.
SceneDo(s, ref, input_str, handled) ==
    /\ s \in created
    /\ \E pick \in NonsensePicks(s, handled) :
       \E r \in {do(World, s, ref, input_str, handled, pick)} :
         /\ Bounded(r)
         /\ Commit(r)
         /\ last' = DoCall(s, ref, input_str, handled, r)
    /\ UNCHANGED <<created, pname, game_on>>

\* Player.push_msg called by a client.
PushMsg(p, message) ==
    /\ LET r == Ok(push_msg(World, p, message), None) IN
       /\ Bounded(r)
       /\ Commit(r)
       /\ last' = [Call("push_msg", None, p, None, None, None, r)
                      EXCEPT !.inp = message]
    /\ UNCHANGED <<created, pname, game_on>>

\* The player of the game session, and the other Player object, which enters
\* no map.
ThePlayer == "P1"

\* What `for m in messages: print(m)` prints: the loop calls next(messages)
\* until the queue raises StopIteration.
RECURSIVE Printed(_)
Printed(q) ==
    LET n == Queue_next(q) IN
    IF n.err # "ok" THEN <<>> ELSE <<n.val>> \o Printed(n.q)

\* A loop that prints the message at the front and stops.
ShowMessages_first_only(p) ==
    /\ msgs[p] # <<>>
    /\ game_on # "raised"
    /\ LET r == [Ok([World EXCEPT !.msgs[p] = Tail(@)], None)
                    EXCEPT !.val = <<Head(msgs[p])>>] IN
       /\ Commit(r)
       /\ last' = Call("messages", None, p, None, None, None, r)
    /\ UNCHANGED <<created, pname, game_on>>

\* `for m in self._player.messages: print(m)`: the loop takes every message
\* out of the queue and prints it; the call records what was printed.  The
\* loop is not reached once do has raised.
ShowMessages(p) ==
    /\ msgs[p] # <<>>
    /\ game_on # "raised"
    /\ LET r == [Ok([World EXCEPT !.msgs[p] = <<>>], None)
                    EXCEPT !.val = Printed(msgs[p])] IN
       /\ Commit(r)
       /\ last' = Call("messages", None, p, None, None, None, r)
    /\ UNCHANGED <<created, pname, game_on>>

\* One turn of the loop of Game.play (and of test_simplest_dungeon), after the
\* messages were shown: an input line is read and given to the do of the
\* player's scene.  An exception do raises ends the loop.
PlayTurn(input_str) ==
    /\ game_on = True
    /\ msgs[ThePlayer] = <<>>
    /\ pscene[ThePlayer] # None
    /\ \E pick \in NonsensePicks(pscene[ThePlayer], None) :
       \E r \in {do(World, pscene[ThePlayer], ThePlayer, input_str, None, pick)} :
         /\ Commit(r)
         /\ game_on' = IF r.err = "ok" THEN r.val ELSE "raised"
         /\ last' = DoCall(pscene[ThePlayer], ThePlayer, input_str, None, r)
    /\ UNCHANGED <<created, pname>>

\* The state Game(SimpleMap, NormalPlayer) constructs: SimpleMap() builds its
\* six scenes and sets the starting scene; NormalPlayer(name, map) enters the
\* map, then sets state['boredom'].  The second player object is built
\* without a map.
InitGame ==
    /\ pname \in Namings
    /\ created = GameScenes
    /\ LET w0 == [scenes |-> (GameMap :> [n \in GameSceneNames |->
                                 CHOOSE s \in GameScenes : SceneName(s) = n]),
                  players |-> (GameMap :> <<>>),
                  starting |-> (GameMap :> None),
                  pmap |-> [p \in Players |-> None],
                  pscene |-> [p \in Players |-> None],
                  msgs |-> [p \in Players |-> <<>>],
                  pstate |-> [p \in Players |-> <<>>],
                  bear_moved |-> False]
           w1 == set_starting_scene(w0, GameMap, "entrance").w
           w2 == enter_map(w1, ThePlayer, GameMap, None).w
       IN  /\ scenes = w2.scenes
           /\ players = w2.players
           /\ starting = w2.starting
           /\ pmap = w2.pmap
           /\ pscene = w2.pscene
           /\ msgs = w2.msgs
           /\ pstate = [p \in Players |-> [boredom |-> 0]]
           /\ bear_moved = w2.bear_moved
    /\ game_on = True
    /\ last = Call("init", None, None, None, None, None, Ok(None, None))

----------------------------------------------------------------------------
(* The specifications. *)

\* The calls of a player: entering and leaving maps, reading messages.
Next ==
    \/ \E p \in Players, m \in Maps : \E ref \in SceneRefs(m) : EnterMap(p, m, ref)
    \/ \E p \in Players : LeaveMap(p)
    \/ \E p \in Players : PopMsg(p)

Spec == Init /\ [][Next]_vars

\* Players moving between the scenes of a map whose scenes are removed and
\* replaced, until MaxMsgs messages are queued (no message is read).
NextScenes ==
    \/ \E p \in Players : \E ref \in SceneRefs(TheMap) : EnterMap(p, TheMap, ref)
    \/ \E p \in Players : LeaveMap(p)
    \/ \E s \in Scenes, ref \in PlayerRefs : SceneEnter(s, ref)
    \/ \E ref \in SceneRefs(TheMap) \ {None} : RemoveScene(TheMap, ref)
    \/ \E s \in Scenes : NewScene(s)

SpecScenes == Init /\ [][NextScenes]_vars

\* The registries of a map called directly.
NextReg ==
    \/ \E s \in Scenes : NewScene(s)
    \/ \E s \in Scenes : AddScene(s)
    \/ \E ref \in SceneRefs(TheMap) \ {None} : RemoveScene(TheMap, ref)
    \/ \E p \in Players : AddPlayer(TheMap, p)
    \/ \E ref \in PlayerRefs : RemovePlayer(TheMap, ref)
    \/ \E ref \in SceneRefs(TheMap) \ {None} : SceneLookup(TheMap, ref)
    \/ \E ref \in PlayerRefs : PlayerLookup(TheMap, ref)
    \/ \E p \in Players : PopMsg(p)

SpecReg == Init /\ [][NextReg]_vars

\* do called on the scenes of a map of base Scene objects, by players that
\* enter the map and have their messages shown.
NextDo ==
    \/ \E m \in DOMAIN scenes \cap {TheMap} : \E ref \in SceneRefs(m) :
          EnterMap(ThePlayer, m, ref)
    \/ \E s \in Scenes, ref \in PlayerRefs, input_str \in BaseInputs :
          SceneMap(s) = TheMap /\ SceneDo(s, ref, input_str, None)
    \/ ShowMessages(ThePlayer)

SpecDo == Init /\ [][NextDo]_vars

\* A session of the sample game, and do called with an already-handled result
\* on the scenes there are.
NextGame ==
    \/ \E input_str \in Inputs : PlayTurn(input_str)
    \/ ShowMessages(ThePlayer)
    \/ \E s \in Scenes \cup GameScenes, ref \in PlayerRefs,
          input_str \in HandledInputs, handled \in {True, False} :
          SceneDo(s, ref, input_str, handled)

SpecGame == InitGame /\ [][NextGame]_vars

\* The session as Game.play runs it: the loop that prints the messages is
\* reached after every do that returns.
NextPlay ==
    \/ \E input_str \in Inputs : PlayTurn(input_str)
    \/ ShowMessages(ThePlayer)

SpecPlay == InitGame /\ [][NextPlay]_vars /\ WF_vars(ShowMessages(ThePlayer))

\* The same session, played on the sample game or, by a player that entered
\* it, on the map of base scenes.
NextHandled ==
    \/ \E m \in DOMAIN scenes \cap {TheMap} : \E ref \in SceneRefs(m) :
          EnterMap(ThePlayer, m, ref)
    \/ NextGame

SpecHandled == (Init \/ InitGame) /\ [][NextHandled]_vars

\* The message queue of a player, used by a client.
QueueMsgs == {MsgGoodbye, MsgCantParse, MsgFirstTime}

NextQueue ==
    \/ \E p \in Players, message \in QueueMsgs : PushMsg(p, message)
    \/ \E p \in Players : PopMsg(p)

SpecQueue == Init /\ [][NextQueue]_vars

\* The starting scene of a map whose scenes are removed and replaced.
NextStart ==
    \/ \E ref \in SceneRefs(TheMap) : SetStartingScene(TheMap, ref)
    \/ \E s \in Scenes : NewScene(s)
    \/ \E s \in Scenes : AddScene(s)
    \/ \E ref \in SceneRefs(TheMap) \ {None} : RemoveScene(TheMap, ref)
    \/ EnterMap(ThePlayer, TheMap, None)
    \/ LeaveMap(ThePlayer)

SpecStart == Init /\ [][NextStart]_vars

\* The sample game played by two players who leave the map and enter it again
\* at its starting scene, with the lines that lead to the bear and past it.
BearInputs == {Line.opendoor, Line.left, Line.taunt}

NextBear ==
    \/ \E p \in Players, input_str \in BearInputs :
          SceneDo(pscene[p], p, input_str, None)
    \/ \E p \in Players : ShowMessages(p)
    \/ \E p \in Players : LeaveMap(p)
    \/ \E p \in Players : EnterMap(p, GameMap, None)

SpecBear == InitGame /\ [][NextBear]_vars

\* enter and do called on the scenes of a map for a player that enters and
\* leaves it, and for one that never enters it, until MaxMsgs messages are
\* queued.
NextStrangers ==
    \/ EnterMap(ThePlayer, TheMap, None)
    \/ LeaveMap(ThePlayer)
    \/ \E s \in Scenes, ref \in PlayerRefs : SceneEnter(s, ref)
    \/ \E s \in Scenes, ref \in PlayerRefs, handled \in {None, True, False} :
          SceneMap(s) = TheMap /\ SceneDo(s, ref, Line.exit, handled)

SpecStrangers == Init /\ [][NextStrangers]_vars

----------------------------------------------------------------------------
(* The claims.  A formula about a call reads `last'`, the record of the call  *)
(* the step made, the state before the call (unprimed) and the state after it *)
(* (primed).                                                                  *)

\* m's player registry holds the object p under p.name.
Registered(m, p) ==
    /\ pname[p] \in DOMAIN players[m]
    /\ players[m][pname[p]] = p

\* m's scene registry holds the object s under s.name.
SceneRegistered(m, s) ==
    /\ SceneName(s) \in DOMAIN scenes[m]
    /\ scenes[m][SceneName(s)] = s

\* The scene a reference given to map m resolves to (None when it does not).
Resolved(m, ref) == scene(World, m, ref).val

\* C1: after any sequence of enter_map and leave_map calls, failed ones
\* included, p.map is m if and only if m's player registry holds p under
\* p.name, for every player p and map m.
C1_MapIffRegistered ==
    \A p \in Players, m \in Maps : (pmap[p] = m) <=> Registered(m, p)

\* C2: remove_scene(s), s given by name or by object, fails with the
\* scene-in-use error whenever a player registered in the map has s as its
\* current scene, and leaves the scene registry unchanged.
C2_RemoveOccupiedSceneInUse ==
    [][(/\ last'.op = "remove_scene"
        /\ Resolved(last'.map, last'.ref) # None
        /\ \E p \in Players :
              /\ Registered(last'.map, p)
              /\ pscene[p] = Resolved(last'.map, last'.ref))
       => (last'.err = "SceneInUse" /\ scenes' = scenes)]_vars

\* C3: once every player whose current scene was s has left it (leave_map, or
\* a transition to another scene), remove_scene(s) succeeds and s no longer
\* resolves in the map, whoever else is registered in the map in other scenes.
\* (Stated for the call that is given the scene object s.)
C3_RemoveAfterLeaving ==
    [][(/\ last.op \in {"leave_map", "enter"}
        /\ last.err = "ok"
        /\ last.was # None
        /\ pscene[last.plr] # last.was
        /\ \A q \in Players : pscene[q] # last.was
        /\ last'.op = "remove_scene"
        /\ last'.ref = last.was
        /\ SceneRegistered(last'.map, last.was))
       => (/\ last'.err = "ok"
           /\ SceneName(last.was) \notin DOMAIN scenes'[last'.map])]_vars

\* C4: remove_scene given the name of a registered scene no player occupies
\* does what it does given the scene object: it succeeds, the name no longer
\* resolves, and every other scene and every player registration is unchanged.
C4_RemoveByNameLikeByObject ==
    [][(/\ last'.op = "remove_scene"
        /\ IsStr(last'.ref)
        /\ last'.ref \in DOMAIN scenes[last'.map]
        /\ \A q \in Players : pscene[q] # Resolved(last'.map, last'.ref))
       => (/\ last'.err = "ok"
           /\ scenes' = [scenes EXCEPT ![last'.map] = DictDel(@, last'.ref)]
           /\ players' = players)]_vars

\* Both ways of resolving the entity give the entity.
ResolvesScene(m, s) ==
    /\ scene(World, m, SceneName(s)) = [err |-> "ok", val |-> s]
    /\ scene(World, m, s) = [err |-> "ok", val |-> s]

ResolvesPlayer(m, p) ==
    /\ player(World, m, pname[p]) = [err |-> "ok", val |-> p]
    /\ player(World, m, p) = [err |-> "ok", val |-> p]

\* C5: for every scene or player e and every registry in which e.name is
\* free, the add of e succeeds, and from then on resolving by the name e.name
\* and resolving by the object e both return e, until e is removed.
C5_AddThenResolve ==
    [][\A m \in Maps :
       /\ \A s \in Scenes :
            /\ (/\ last'.op \in {"Scene", "add_scene"}
                /\ last'.map = m
                /\ last'.scn = s
                /\ SceneName(s) \notin DOMAIN scenes[m])
               => (last'.err = "ok" /\ ResolvesScene(m, s)')
            /\ (/\ ResolvesScene(m, s)
                /\ ~(/\ last'.op = "remove_scene"
                     /\ last'.map = m
                     /\ last'.err = "ok"
                     /\ Resolved(m, last'.ref) = s))
               => ResolvesScene(m, s)'
       /\ \A p \in Players :
            /\ (/\ last'.op = "add_player"
                /\ last'.map = m
                /\ last'.plr = p
                /\ pname[p] \notin DOMAIN players[m])
               => (last'.err = "ok" /\ ResolvesPlayer(m, p)')
            /\ (/\ ResolvesPlayer(m, p)
                /\ ~(/\ last'.op = "remove_player"
                     /\ last'.map = m
                     /\ last'.err = "ok"
                     /\ player(World, m, last'.ref).val = p))
               => ResolvesPlayer(m, p)']_vars

\* A scene was added, then found by its name and by itself.
C5_Witness ==
    /\ "S2" \in created
    /\ last.op = "scene"
    /\ last.ref = "S2"
    /\ last.err = "ok"
    /\ last.val = "S2"
    /\ ResolvesScene(TheMap, "S2")
    /\ \E p \in Players : ResolvesPlayer(TheMap, p)

\* C6: adding an entity whose name a different entity holds fails with
\* DuplicateName, adding the same object a second time fails with
\* AlreadyRegistered; the registry is unchanged either way and add_player
\* queues no welcome message to the rejected player.
C6_RejectedAdd ==
    [][/\ (/\ last'.op \in {"Scene", "add_scene"}
           /\ SceneName(last'.scn) \in DOMAIN scenes[last'.map])
          => (/\ last'.err = IF scenes[last'.map][SceneName(last'.scn)] = last'.scn
                             THEN "AlreadyRegistered" ELSE "DuplicateName"
              /\ scenes' = scenes
              /\ created' = created)
       /\ (/\ last'.op = "add_player"
           /\ pname[last'.plr] \in DOMAIN players[last'.map])
          => (/\ last'.err = IF players[last'.map][pname[last'.plr]] = last'.plr
                             THEN "AlreadyRegistered" ELSE "DuplicateName"
              /\ players' = players
              /\ msgs' = msgs)]_vars

\* A player was rejected for its name, with the other player still registered.
C6_Witness ==
    /\ last.op = "add_player"
    /\ last.err = "DuplicateName"
    /\ last.plr = "P2"
    /\ Registered(TheMap, "P1")
    /\ msgs["P2"] = <<>>

\* The outcome a lookup of ref in the dict d owes, given the name of ref.
Owed(ref, name, d) ==
    IF name \notin DOMAIN d THEN [err |-> "NotFound", val |-> None]
    ELSE IF IsStr(ref) \/ d[name] = ref THEN [err |-> "ok", val |-> d[name]]
    ELSE [err |-> "IdentityMismatch", val |-> None]

\* C7: resolving by entity reference fails with IdentityMismatch whenever the
\* slot of the entity's name holds a different object (so a reference to a
\* removed entity fails once a new entity took its name, while the new
\* entity and the name resolve to the new entity); resolving an absent name
\* fails with NotFound; no failed resolve changes the registry.
C7_StaleReference ==
    [][/\ last'.op = "scene"
          => (/\ [err |-> last'.err, val |-> last'.val]
                    = Owed(last'.ref, RefName(last'.ref, FALSE), scenes[last'.map])
              /\ scenes' = scenes)
       /\ last'.op = "player"
          => (/\ [err |-> last'.err, val |-> last'.val]
                    = Owed(last'.ref, RefName(last'.ref, TRUE), players[last'.map])
              /\ players' = players)
       /\ (last'.op = "remove_player" /\ last'.err # "ok")
          => (/\ last'.err = Owed(last'.ref, RefName(last'.ref, TRUE),
                                  players[last'.map]).err
              /\ players' = players)]_vars

\* S1 was removed and S2 built under its name: the reference S1 is refused.
C7_Witness ==
    /\ {"S1", "S2"} \subseteq created
    /\ SceneRegistered(TheMap, "S2")
    /\ last.op = "scene"
    /\ last.ref = "S1"
    /\ last.err = "IdentityMismatch"

\* C8: enter_map(m, s) followed at once by enter_map(m, s), same player, map
\* and scene, succeeds again and runs the first-time hook of s both times,
\* never the repeat hook.
C8_ReenterIsFirstTime ==
    [][(/\ last.op = "enter_map"
        /\ last.err = "ok"
        /\ last'.op = "enter_map"
        /\ last'.plr = last.plr
        /\ last'.map = last.map
        /\ pscene[last.plr] =
              Resolved(last.map, IF last'.ref = None THEN starting[last.map]
                                 ELSE last'.ref))
       => (/\ last.hook = "first"
           /\ last'.err = "ok"
           /\ last'.hook = "first"
           /\ last'.was = pscene'[last'.plr]
           /\ msgs'[last.plr] = msgs[last.plr] \o
                  <<MsgWelcome(last.plr, last.map), MsgFirstTime>>)]_vars

\* A player entered the scene it was in, in the map it was in.
C8_Witness ==
    /\ last.op = "enter_map"
    /\ last.err = "ok"
    /\ last.was # None
    /\ last.was = pscene[last.plr]
    /\ Len(msgs[last.plr]) = 4

\* C9: a successful enter_map(m, ref) ends with the player registered in m,
\* player.map = m, player.scene = the scene ref resolves to in m (m's starting
\* scene when ref is omitted), and the welcome message followed by that
\* scene's first-time message appended to the player's queue.
C9_EnterMapResult ==
    [][\A p \in Players, m \in Maps :
       (/\ last'.op = "enter_map"
        /\ last'.err = "ok"
        /\ last'.plr = p
        /\ last'.map = m)
       => LET ref == IF last'.ref = None THEN starting[m] ELSE last'.ref
          IN  /\ Registered(m, p)'
              /\ pmap'[p] = m
              /\ Resolved(m, ref) # None
              /\ pscene'[p] = Resolved(m, ref)
              /\ msgs'[p] = msgs[p] \o <<MsgWelcome(p, m), MsgFirstTime>>
              /\ last'.hook = "first"]_vars

\* A player entered a map with the scene left out, and one by a scene's name.
C9_Witness ==
    /\ last.op = "enter_map"
    /\ last.err = "ok"
    /\ last.ref = None
    /\ pscene[last.plr] = "S1"
    /\ \E q \in Players : pscene[q] = "S3"

\* C10: leave_map on a player attached to map m removes the player from m's
\* player registry and sets player.map and player.scene to null; the scene
\* registries, the starting scenes and the message queues are unchanged.
C10_LeaveMapDetaches ==
    [][(last'.op = "leave_map" /\ pmap[last'.plr] # None)
       => LET p == last'.plr
              m == pmap[p]
          IN  /\ last'.err = "ok"
              /\ pname[p] \notin DOMAIN players'[m]
              /\ pmap'[p] = None
              /\ pscene'[p] = None
              /\ pmap' = [pmap EXCEPT ![p] = None]
              /\ pscene' = [pscene EXCEPT ![p] = None]
              /\ scenes' = scenes
              /\ starting' = starting
              /\ msgs' = msgs]_vars

\* C11: leave_map on an unattached player (player.map null) raises no error
\* and changes nothing; a leave_map that follows a leave_map of the same
\* player leaves the state the first one left.
C11_LeaveMapIdempotent ==
    [][/\ (last'.op = "leave_map" /\ pmap[last'.plr] = None)
          => (/\ last'.err = "ok"
              /\ UNCHANGED <<scenes, players, starting, pmap, pscene, msgs>>)
       /\ (/\ last.op = "leave_map"
           /\ last'.op = "leave_map"
           /\ last'.plr = last.plr)
          => UNCHANGED <<scenes, players, starting, pmap, pscene, msgs>>]_vars

\* A player that had entered a map left it, then left again.
C11_Witness ==
    /\ last.op = "leave_map"
    /\ last.map = None
    /\ last.err = "ok"
    /\ pmap[last.plr] = None
    /\ msgs[last.plr] # <<>>

\* C12: Scene.enter(p) runs exactly one of the two entry hooks: the first-time
\* hook if and only if p's current scene was not this scene before the call
\* (and then p.scene is this scene afterwards); otherwise the repeat hook,
\* with no change to any map pointer, scene pointer or registry.  (Stated for
\* the calls whose player reference resolves in the scene's map.)
C12_EnterRunsOneHook ==
    [][\A p \in Players :
       (last'.op = "enter" /\ last'.err = "ok" /\ last'.plr = p)
       => /\ last'.hook = IF pscene[p] # last'.scn THEN "first" ELSE "again"
          /\ msgs' = [msgs EXCEPT ![p] = Append(@,
                         IF pscene[p] # last'.scn THEN MsgFirstTime ELSE MsgAgain)]
          /\ pscene' = [pscene EXCEPT ![p] = last'.scn]
          /\ UNCHANGED <<scenes, players, starting, pmap>>]_vars

\* A player entered a map, moved to another scene and entered that scene again.
C12_Witness ==
    /\ last.op = "enter"
    /\ last.err = "ok"
    /\ last.hook = "again"
    /\ pscene[last.plr] = last.scn
    /\ msgs[last.plr] = <<MsgWelcome(last.plr, TheMap), MsgFirstTime,
                          MsgFirstTime, MsgAgain>>

\* The lines of Inputs that are a farewell: exit or quit, then maybe
\* whitespace and game, in any case.
ExitLines == {Line.exit, Line.quit_game, Line.exit_upper}

\* C13: the base Scene.do, called with no already-handled result, appends
\* exactly one message and returns false for every input: the farewell when
\* the whole input matches the exit/quit pattern, otherwise the can't-parse
\* message; it changes no map pointer, current scene, scene state or registry.
\* (Stated for the calls whose player reference resolves in the scene's map.)
C13_BaseDoEndsGame ==
    [][\A p \in Players :
       (/\ last'.op = "do"
        /\ SceneClass(last'.scn) = "Scene"
        /\ last'.handled = None
        /\ last'.plr = p)
       => /\ last'.err = "ok"
          /\ last'.val = False
          /\ msgs' = [msgs EXCEPT ![p] = Append(@,
                         IF last'.inp \in ExitLines THEN MsgGoodbye
                         ELSE MsgCantParse)]
          /\ last'.acts = <<IF last'.inp \in ExitLines THEN "action_exit"
                            ELSE "action_cant_parse">>
          /\ UNCHANGED <<scenes, players, starting, pmap, pscene, pstate,
                         bear_moved>>]_vars

\* A player entered the map, typed `exit`, then `exits`.
C13_Witness ==
    /\ last.op = "do"
    /\ last.handled = None
    /\ last.inp = Line.exits
    /\ last.val = False
    /\ msgs[ThePlayer] = <<MsgWelcome(ThePlayer, TheMap), MsgFirstTime,
                           MsgGoodbye, MsgCantParse>>

\* C14: when do is called with an already-handled result (true or false), it
\* invokes no action handler, queues no message and changes no state, and the
\* value it returns is exactly the one it was given, in the base scene and in
\* every subclass do.  The call returns whenever the scene is a base Scene or
\* the player reference resolves in the scene's map: a subclass do resolves
\* the player before it looks at the result it was given.
C14_HandledPassesThrough ==
    [][(last'.op = "do" /\ last'.handled \in {True, False})
       => /\ last'.acts = <<>>
          /\ last'.hook = None
          /\ UNCHANGED <<scenes, players, starting, pmap, pscene, msgs, pstate,
                         bear_moved>>
          /\ last'.err = "ok" => last'.val = last'.handled
          /\ (SceneClass(last'.scn) = "Scene" \/ last'.plr # None)
                => last'.err = "ok"]_vars

\* FirstScene.do was given `left` and the result True by the player in it.
C14_Witness ==
    /\ last.op = "do"
    /\ last.scn = "First"
    /\ last.inp = Line.left
    /\ last.handled = True
    /\ last.plr = ThePlayer
    /\ last.val = True
    /\ pscene[ThePlayer] = "First"

\* The dispatch table of a dispatching scene.
DispatchOf(s) ==
    CASE s = "First" -> FirstDispatch
      [] s = "Bear" -> BearDispatch
      [] s = "Cthulhu" -> CthulhuDispatch

\* C15: in a dispatching scene's do (FirstScene, BearScene, CthulhuScene) each
\* call invokes exactly one handler: the action of the lowest-index pattern
\* that matches the entire input; only when no pattern of the list matches is
\* the parent class's do invoked, once, ending at the exit or the can't-parse
\* action.
C15_LowestMatchingPattern ==
    [][(/\ last'.op = "do"
        /\ last'.handled = None
        /\ last'.plr # None
        /\ last'.scn \in {"First", "Bear", "Cthulhu"})
       => LET d == DispatchOf(last'.scn)
              hits == {k \in DOMAIN d : fullmatch(d[k].pat, last'.inp)}
          IN  IF hits # {}
              THEN \E k \in hits :
                      /\ \A j \in hits : k <= j
                      /\ last'.acts = <<d[k].action>>
              ELSE \E h \in {"action_exit", "action_cant_parse"} :
                      last'.acts = <<"Scene.do", h>>]_vars

\* `flee`, which the first and the third pattern of CthulhuScene match, ran
\* action_flee.
C15_Witness ==
    /\ last.op = "do"
    /\ last.scn = "Cthulhu"
    /\ last.inp = Line.flee
    /\ last.acts = <<"action_flee">>
    /\ pscene[ThePlayer] = "First"

\* C16: for every scene of the engine and of the sample map (entrance, first,
\* bear, cthulhu, gold, lava), do with the input `exit` or `quit game` queues
\* the farewell message and returns false.
C16_ExitEverywhere ==
    [][\A p \in Players :
       (/\ last'.op = "do"
        /\ last'.handled = None
        /\ last'.plr = p
        /\ last'.inp \in {Line.exit, Line.quit_game})
       => /\ last'.err = "ok"
          /\ last'.val = False
          /\ msgs' = [msgs EXCEPT ![p] = Append(@, MsgGoodbye)]]_vars

\* The handlers that move the player, the name of the scene each enters and
\* the message each queues.
MoveTarget ==
    [action_open_door |-> "first", action_left |-> "bear",
     action_right |-> "cthulhu", action_center |-> "lava",
     action_flee |-> "first", action_door |-> "gold"]

MoveMsg ==
    [action_open_door |-> SceneMsg.door_opens, action_left |-> SceneMsg.left,
     action_right |-> SceneMsg.right, action_center |-> SceneMsg.center,
     action_flee |-> SceneMsg.flee, action_door |-> SceneMsg.passed]

\* C17: when an action handler triggers a transition during do (for example
\* EntranceScene's open-door action entering 'first'), the player's current
\* scene is already the new scene when do returns, and do returns the continue
\* value computed by the dispatched scene.
C17_TransitionBeforeReturn ==
    [][\A p \in Players :
       (/\ last'.op = "do"
        /\ last'.plr = p
        /\ Len(last'.acts) = 1
        /\ last'.acts[1] \in DOMAIN MoveTarget
        /\ (last'.acts[1] = "action_door" => bear_moved = True))
       => /\ last'.err = "ok"
          /\ last'.val = True
          /\ last'.hook = "first"
          /\ pscene'[p] # pscene[p]
          /\ pscene'[p] = scenes[last'.map][MoveTarget[last'.acts[1]]]]_vars

\* The player passed the bear it had taunted and stands in the gold room.
C17_Witness ==
    /\ last.op = "do"
    /\ last.scn = "Bear"
    /\ last.acts = <<"action_door">>
    /\ last.val = True
    /\ pscene[ThePlayer] = "Gold"

\* What the enter of a scene queues to a player that was not in it.
EnterMsgs(s) ==
    IF s = "Bear"
    THEN <<MsgFirstTimeOf(s),
           IF bear_moved = True THEN SceneMsg.bear_moved ELSE SceneMsg.bear_at_door>>
    ELSE <<MsgFirstTimeOf(s)>>

\* C18: within one do call that triggers a transition, every message queued
\* by the old scene's handler precedes every message queued by the new scene's
\* enter, and all of them are in the queue when do returns.
C18_MessageOrder ==
    [][\A p \in Players :
       (/\ last'.op = "do"
        /\ last'.plr = p
        /\ Len(last'.acts) = 1
        /\ last'.acts[1] \in DOMAIN MoveTarget
        /\ (last'.acts[1] = "action_door" => bear_moved = True))
       => msgs' = [msgs EXCEPT ![p] =
                      @ \o <<MoveMsg[last'.acts[1]]>> \o EnterMsgs(pscene'[p])]]_vars

\* FirstScene.action_left moved the player to the bear.
C18_Witness ==
    /\ last.op = "do"
    /\ last.acts = <<"action_left">>
    /\ pscene[ThePlayer] = "Bear"
    /\ msgs[ThePlayer] = <<SceneMsg.left, MsgFirstTimeOf("Bear"), SceneMsg.bear_at_door>>

C20_StartingSceneSetter ==
    [][\A m \in Maps :
       /\ (last'.op = "starting_scene" /\ last'.map = m)
          => /\ IF Resolved(m, last'.ref) = None
                THEN last'.err # "ok" /\ starting' = starting
                ELSE /\ last'.err = "ok"
                     /\ starting' = [starting EXCEPT ![m] =
                                        SceneName(Resolved(m, last'.ref))]
             /\ scenes' = scenes
       /\ (last'.op = "enter_map" /\ last'.map = m /\ last'.ref = None)
          => IF starting[m] \in DOMAIN scenes[m]
             THEN /\ last'.err = "ok"
                  /\ pscene'[last'.plr] = scenes[m][starting[m]]
             ELSE /\ last'.err = "NotFound"
                  /\ pscene'[last'.plr] = None]_vars

\* The starting scene was set to `cave`; the removed scene S1, whose name S2
\* now holds, was then refused.
C20_Witness ==
    /\ last.op = "starting_scene"
    /\ last.ref = "S1"
    /\ last.err = "IdentityMismatch"
    /\ starting[TheMap] = "cave"
    /\ SceneRegistered(TheMap, "S2")

\* C21: in every reachable state of a Map, across construction, add_scene,
\* remove_scene and the starting_scene setter, a starting scene name that is
\* set (not None) is the name of a scene present in the map's scene registry.
C21_StartingSceneRegistered ==
    \A m \in Maps : starting[m] # None => starting[m] \in DOMAIN scenes[m]

C23_BoredomCounts ==
    [][\A p \in Players :
       (/\ last'.op = "do"
        /\ last'.plr = p
        /\ last'.scn \in GameScenes
        /\ last'.acts # <<>>
        /\ last'.acts[Len(last'.acts)] = "action_cant_parse")
       => /\ last'.err = "ok"
          /\ pstate'[p].boredom = pstate[p].boredom + 1
          /\ last'.val = (IF pstate'[p].boredom > 14 THEN False ELSE True)
          /\ last'.val = True
                => /\ last'.hook = "again"
                   /\ pscene'[p] = pscene[p]]_vars

C25_SceneOfOwnMap ==
    \A p \in Players :
       pscene[p] # None
       => /\ pmap[p] # None
          /\ SceneRegistered(pmap[p], pscene[p])

\* C26: whenever enter_map returns or raises, a player that is registered in
\* a map's player registry has a current scene; enter_map with a scene
\* reference that does not resolve (an unknown name, or no reference while
\* the map has no starting scene) does not leave the player registered in the
\* map without a current scene.
C26_RegisteredHasScene ==
    last.op = "enter_map"
    => \A p \in Players, m \in Maps : Registered(m, p) => pscene[p] # None

\* C27: after any sequence of enter_map and leave_map calls over several
\* maps, successful or failing, each player object is held in the player
\* registry of at most one map.
C27_OneRegistry ==
    \A p \in Players : \A m1, m2 \in Maps :
       (Registered(m1, p) /\ Registered(m2, p)) => m1 = m2

\* A player that stood in a scene of M1 entered M2: M2 holds it, M1 does not.
C27_Witness ==
    /\ last.op = "enter_map"
    /\ last.map = "M2"
    /\ last.plr = "P1"
    /\ last.was = "S1"
    /\ last.err = "ok"
    /\ Registered("M2", "P1")
    /\ ~Registered("M1", "P1")
    /\ Registered("M1", "P2")

\* A player reference that the player registry of map m does not resolve: a
\* Player object that m does not hold under its name (it never entered, it
\* left, or another player holds the name), or a name that m does not hold.
Stranger(m, ref) ==
    IF ref \in Players THEN ~Registered(m, ref)
    ELSE ref \notin DOMAIN players[m]

\* C28 as stated: Scene.enter and Scene.do resolve the player through the
\* scene's own map; when the player is not registered in that map the call
\* fails, queues no message to any player and changes no current-scene
\* pointer, scene state or registry.
C28_StrangerFails ==
    [][\A m \in Maps, ref \in PlayerRefs :
       (/\ last'.op \in {"enter", "do"}
        /\ last'.map = m
        /\ last'.ref = ref
        /\ Stranger(m, ref))
       => /\ last'.err # "ok"
          /\ UNCHANGED <<scenes, players, starting, pmap, pscene, msgs, pstate,
                         bear_moved>>]_vars

\* C28, amended: Scene.enter, and Scene.do called without an already-handled
\* result, resolve the player through the scene's own map and fail when the
\* player is not registered in it; Scene.do called with an already-handled
\* result returns it without resolving the player.  In every case no message
\* is queued to any player and no current-scene pointer, scene state or
\* registry changes.
C28_StrangerFailsUnhandled ==
    [][\A m \in Maps, ref \in PlayerRefs :
       (/\ last'.op \in {"enter", "do"}
        /\ last'.map = m
        /\ last'.ref = ref
        /\ Stranger(m, ref))
       => /\ UNCHANGED <<scenes, players, starting, pmap, pscene, msgs, pstate,
                         bear_moved>>
          /\ last'.plr = None
          /\ IF last'.op = "do" /\ last'.handled # None
             THEN last'.err = "ok" /\ last'.val = last'.handled
             ELSE last'.err \in {"NotFound", "IdentityMismatch"}]_vars

\* do was called for the Player object P2 while the map holds P1, who stands
\* in the scene, under the name of both.
C28_Witness ==
    /\ last.op = "do"
    /\ last.ref = "P2"
    /\ last.handled = None
    /\ last.err = "IdentityMismatch"
    /\ pname["P2"] = pname["P1"]
    /\ Registered(TheMap, "P1")
    /\ pscene["P1"] = "S1"
    /\ pscene["P2"] = None

====
